---- MODULE Spec2Model ----
(***************************************************************************)
(* Model of the aidk execution and response-normalisation core:            *)
(*   aidk/models/_prompt_executor.py     PromptExecutorMixin               *)
(*   aidk/models/_response_processor.py  ResponseProcessorMixin            *)
(*   aidk/models/multi_model.py          MultiModel                        *)
(*                                                                         *)
(* Text is a sequence of one-character strings, so that concatenation,     *)
(* joining and formatting are computed and not assumed.  Decimal costs     *)
(* are integers: a reported cost counts units of 10^-9, a processed cost   *)
(* counts units of 10^-8.                                                  *)
(***************************************************************************)
EXTENDS Integers, Sequences, FiniteSets, TLC

VARIABLES
    self,              \* attributes of the object the mixin methods run on
    success_callback,  \* litellm.success_callback (process wide)
    failure_callback,  \* litellm.failure_callback (process wide)
    _models,           \* MultiModel._models
    fanEntry,          \* the entry point used: ask or _ask_async
    fanPrompt,         \* the prompt handed to MultiModel.ask
    fanPc,             \* position of MultiModel._ask_async
    fanResult,         \* the list _ask_async returns
    fanError,          \* the error _ask_async raises
    taskPc,            \* position of each MultiModel._task coroutine
    taskModel,         \* the model argument each _task was created with
    taskReq,           \* the request each task handed to the transport
    taskOut,           \* the value or error each task finished with
    doneOrder,         \* task indices in the order they finished
    callPc,            \* position of one _execute/_execute_async/_execute_stream call
    callMode,          \* which of the three operations the call is
    callPrompt,        \* the prompt argument of the call
    callDocs,          \* the documents self._rag.query returned to the call
    callObs,           \* Conf()["observability"] as read by the call
    callReq,           \* the request the call handed to the transport
    callDispatches,    \* how many times the call invoked the transport
    callYielded,       \* raw chunks the streaming call has yielded
    callOut,           \* the value or error the call ended with
    callFailure,       \* the error the transport raised in the call, and when
    procPc,            \* position of one response-processor conversion
    procIn,            \* the transport response or terminal chunk converted
    procPrompt,        \* the prompt echoed by the conversion
    procOut,           \* the conversion's result
    streamPc,          \* position of the streaming consumer
    streamPrompt,      \* the prompt of the streaming call
    streamRaw,         \* transport chunks not yet consumed
    streamSeen,        \* transport chunks consumed so far
    streamOut,         \* normalised elements emitted so far
    streamAcc          \* response text accumulated so far

sharedVars == <<self, success_callback, failure_callback>>
fanVars == <<_models, fanEntry, fanPrompt, fanPc, fanResult, fanError, taskPc, taskModel, taskReq, taskOut, doneOrder>>
callVars == <<callPc, callMode, callPrompt, callDocs, callObs, callReq, callDispatches, callYielded, callOut,
              callFailure>>
procVars == <<procPc, procIn, procPrompt, procOut>>
streamVars == <<streamPc, streamPrompt, streamRaw, streamSeen, streamOut, streamAcc>>
vars == <<sharedVars, fanVars, callVars, procVars, streamVars>>

(***************************************************************************)
(* Bounds                                                                  *)
(***************************************************************************)
MaxModels == 2
MaxGroups == 2
MaxPassages == 2
MaxTokens == 2
MaxCostUnits == 26
MaxChunks == 2
MaxVersion == 2
MaxTools == 2

(***************************************************************************)
(* Values                                                                  *)
(***************************************************************************)
\* Python's None, written in the type of the place it stands in: an
\* enumeration value, a text, a cost
None == "None"
NoneText == <<"None">>
NoneCost == 0 - 1

\* hasattr(obj, name): an object is a record of the attributes it has
HasAttr(obj, name) == name \in DOMAIN obj

Providers == {<<"o">>, <<"d">>}
ModelNames == {<<"g">>}
\* what a caller configures: {'provider': ..., 'model': ...}
ModelEntries == [provider : Providers, model : ModelNames]

TransportErrors == {"AuthenticationError", "RateLimitError"}

RECURSIVE SeqsUpTo(_, _)
SeqsUpTo(S, n) ==
    IF n = 0 THEN {<<>>}
    ELSE LET shorter == SeqsUpTo(S, n - 1)
         IN shorter \cup {Append(s, x) : s \in {t \in shorter : Len(t) = n - 1}, x \in S}

(***************************************************************************)
(* Python str helpers                                                      *)
(***************************************************************************)
Digits == <<"0", "1", "2", "3", "4", "5", "6", "7", "8", "9">>

\* str(n) for a non-negative int
RECURSIVE IntToStr(_)
IntToStr(n) ==
    IF n < 10 THEN <<Digits[n + 1]>>
    ELSE IntToStr(n \div 10) \o <<Digits[(n % 10) + 1]>>

\* sep.join(parts)
RECURSIVE Join(_, _)
Join(sep, parts) ==
    IF Len(parts) = 0 THEN <<>>
    ELSE IF Len(parts) = 1 THEN parts[1]
    ELSE parts[1] \o sep \o Join(sep, Tail(parts))

\* [s for doc_list in documents for s in doc_list]
RECURSIVE Flatten(_)
Flatten(documents) ==
    IF Len(documents) = 0 THEN <<>>
    ELSE documents[1] \o Flatten(Tail(documents))

NewLine == <<"\n">>
Slash == <<"/">>
HostedPrefix == <<"h", "o", "s", "t", "e", "d", "_", "v", "l", "l", "m", "/">>
SlashV == <<"/", "v">>
\* Conf()["default_prompt"]["rag"], the configured template prefix
RagTemplate == <<" ", "R", ":">>

(***************************************************************************)
(* Prompts: a plain str, or a Prompt object with an optional response type *)
(***************************************************************************)
StrPrompt(t) == [kind |-> "str", text |-> t]
PromptObj(t, rt) == [kind |-> "Prompt", text |-> t, response_type |-> rt]

\* a pre-built message sequence: a list whose items are role/content dicts;
\* a list can also come to hold bare one-character strings (list += str)
DictItem(role, content) == [shape |-> "dict", role |-> role, content |-> content]
StrItem(c) == [shape |-> "str", role |-> None, content |-> <<c>>]
ListPrompt(items) == [kind |-> "list", text |-> <<>>, items |-> items]

ExampleMessages == <<DictItem("system", <<"s">>), DictItem("user", <<"q">>)>>

PromptTexts == {<<"q">>, <<>>}
Prompts ==
    {StrPrompt(t) : t \in PromptTexts}
    \cup {PromptObj(<<"q">>, rt) : rt \in {None, "int"}}
    \cup {ListPrompt(ExampleMessages)}

\* str(prompt)
PromptStr(p) == p.text

NoPrompt == [kind |-> "None", text |-> <<>>]

\* prompt.as_dict()
AsDict(p) == DictItem("user", p.text)

\* prompt += suffix; on a list, += extends it with the characters of suffix
PromptIAdd(p, suffix) ==
    IF p.kind = "list"
    THEN [p EXCEPT !.items = @ \o [k \in 1..Len(suffix) |-> StrItem(suffix[k])]]
    ELSE [p EXCEPT !.text = @ \o suffix]

(***************************************************************************)
(* Results of a call: a value, or a raised error                           *)
(***************************************************************************)
\* a transport response or terminal chunk not yet received
NoRaw == [content |-> NoneText, completion_tokens |-> 0, prompt_tokens |-> 0, total_tokens |-> 0,
          response_cost |-> NoneCost]

Ok(v) == [ok |-> TRUE, value |-> v, error |-> None]
Raise(e) == [ok |-> FALSE, value |-> None, error |-> e]
NoOutcome == [ok |-> FALSE, value |-> None, error |-> None]

(***************************************************************************)
(* PromptExecutorMixin                                                     *)
(***************************************************************************)

\* _setup_observability: both assignments bind names local to the function
\* (no global statement, and litellm's own module attributes are never
\* written), so the transport's channels keep the value they had.
SetupObservability(observability, channels) ==
    LET locals == IF Len(observability) > 0
                  THEN [success_callback |-> observability, failure_callback |-> observability]
                  ELSE [success_callback |-> None, failure_callback |-> None]
    IN  channels

\* mutant of AugmentWithDocuments: the passages are joined by a blank
AugmentWithDocumentsBlankJoined(prompt, documents) ==
    IF Len(documents) > 0
    THEN PromptIAdd(prompt, RagTemplate \o Join(<<" ">>, Flatten(documents)))
    ELSE prompt

\* the body of "if len(response['documents']) > 0:" shared by the three _execute* methods
AugmentWithDocuments(prompt, documents) ==
    IF Len(documents) > 0
    THEN PromptIAdd(prompt, RagTemplate \o Join(NewLine, Flatten(documents)))
    ELSE prompt

\* _execute, lines 62-68
ExecuteRag(s, prompt, documents) ==
    IF s._rag # None THEN AugmentWithDocuments(prompt, documents) ELSE prompt

\* _execute_async, lines 84-90
ExecuteAsyncRag(s, prompt, documents) ==
    IF s._rag # None THEN AugmentWithDocuments(prompt, documents) ELSE prompt

\* _execute_stream, lines 35-41
ExecuteStreamRag(s, prompt, documents) ==
    IF HasAttr(s, "_rag") /\ s._rag # None THEN AugmentWithDocuments(prompt, documents) ELSE prompt

\* _execute line 70: the prompt object itself is handed to _completion
ExecutePass(prompt) == prompt

\* _execute_async lines 92-95: a Prompt is handed on as str(prompt)
ExecuteAsyncPass(prompt) ==
    IF prompt.kind = "Prompt" THEN StrPrompt(PromptStr(prompt)) ELSE prompt

\* _execute_stream lines 43-48
ExecuteStreamPass(prompt) ==
    IF prompt.kind = "Prompt" THEN StrPrompt(PromptStr(prompt)) ELSE prompt

\* _completion, lines 141-145
CompletionEndpoint(s) ==
    LET model == s.provider \o Slash \o s.model
    IN  IF HasAttr(s, "url") /\ s.url # NoneText
        THEN [model |-> HostedPrefix \o model, base_url |-> s.url \o SlashV \o IntToStr(s.version)]
        ELSE [model |-> model, base_url |-> NoneText]

\* mutant of CompletionStreamEndpoint: the identifier is not rewritten
CompletionStreamEndpointNoPrefix(s) ==
    LET model == s.provider \o Slash \o s.model
    IN  IF HasAttr(s, "url") /\ s.url # NoneText
        THEN [model |-> model, base_url |-> s.url \o SlashV \o IntToStr(s.version)]
        ELSE [model |-> model, base_url |-> NoneText]

\* _completion_stream, lines 183-187
CompletionStreamEndpoint(s) ==
    LET model == s.provider \o Slash \o s.model
    IN  IF HasAttr(s, "url") /\ s.url # NoneText
        THEN [model |-> HostedPrefix \o model, base_url |-> s.url \o SlashV \o IntToStr(s.version)]
        ELSE [model |-> model, base_url |-> NoneText]

\* _completion_async, lines 236-241
CompletionAsyncEndpoint(s) ==
    LET model == s.provider \o Slash \o s.model
    IN  IF HasAttr(s, "url") /\ s.url # NoneText
        THEN [model |-> HostedPrefix \o model, base_url |-> s.url \o SlashV \o IntToStr(s.version)]
        ELSE [model |-> model, base_url |-> NoneText]

\* the value of the messages argument: a list of items, or a bare str
MessageList(items) == [shape |-> "list", items |-> items, text |-> <<>>]
BareText(t) == [shape |-> "str", items |-> <<>>, text |-> t]
NoMessages == [shape |-> "None", items |-> <<>>, text |-> <<>>]

\* _completion, lines 118-125: only a Prompt is turned into a message
CompletionMessages(prompt) ==
    IF prompt.kind = "Prompt" THEN MessageList(<<AsDict(prompt)>>)
    ELSE IF prompt.kind = "list" THEN MessageList(prompt.items)
    ELSE BareText(prompt.text)

\* _completion_stream, lines 191-194
CompletionStreamMessages(prompt) ==
    IF prompt.kind = "str" THEN MessageList(<<DictItem("user", prompt.text)>>)
    ELSE MessageList(prompt.items)

\* _completion_async, lines 251-254
CompletionAsyncMessages(prompt) ==
    IF prompt.kind = "str" THEN MessageList(<<DictItem("user", prompt.text)>>)
    ELSE MessageList(prompt.items)

\* the value of the response_format argument: a class with the single field
\* "response" of the given type, a bare type, or None
WrappedType(t) == [wrapped |-> TRUE, type |-> t]
BareType(t) == [wrapped |-> FALSE, type |-> t]
NoFormat == BareType(None)

\* _completion, lines 120-135
CompletionResponseFormat(prompt) ==
    LET response_type == IF prompt.kind = "Prompt" THEN prompt.response_type ELSE None
    IN  IF response_type = None THEN WrappedType("str") ELSE WrappedType(response_type)

\* the response_type keyword of _execute_stream lines 44 and 47
ExecuteStreamResponseType(prompt) ==
    IF prompt.kind = "Prompt" THEN prompt.response_type ELSE None

\* the response_type keyword of _execute_async lines 93 and 95
ExecuteAsyncResponseType(prompt) ==
    IF prompt.kind = "Prompt" THEN prompt.response_type ELSE None

\* _completion_stream, line 202: the parameter is handed on as it came
CompletionStreamResponseFormat(response_type) == BareType(response_type)

\* _completion_async, lines 228-232 and 259
CompletionAsyncResponseFormat(response_type) ==
    IF response_type # None THEN WrappedType(response_type) ELSE NoFormat

\* tools: callables, MCP tools, and objects of another shape
FunctionTool(n) == [isa |-> "function", name |-> n]
McpTool(n) == [isa |-> "MCPTool", name |-> n]
OtherTool(n) == [isa |-> "other", name |-> n]

\* ToolParser().parse(tool) and McpToolParser().parse(tool)
ToolParserParse(tool) == [parser |-> "ToolParser", isa |-> tool.isa, name |-> tool.name]
McpToolParserParse(tool) == [parser |-> "McpToolParser", isa |-> tool.isa, name |-> tool.name]

\* the value of the tools argument: None, or a list of descriptors
NoTools == [present |-> FALSE, list |-> <<>>]
ToolList(descriptors) == [present |-> TRUE, list |-> descriptors]

\* the loop of _get_tools, lines 103-107
RECURSIVE ParseByShape(_)
ParseByShape(tools) ==
    IF Len(tools) = 0 THEN <<>>
    ELSE LET tool == Head(tools)
         IN  (IF tool.isa = "function" THEN <<ToolParserParse(tool)>>
              ELSE IF tool.isa = "MCPTool" THEN <<McpToolParserParse(tool)>>
              ELSE <<>>) \o ParseByShape(Tail(tools))

\* _get_tools, lines 97-108 (called at lines 147 and 189)
GetTools(s) ==
    IF HasAttr(s, "_tools") /\ Len(s._tools) > 0 THEN ToolList(ParseByShape(s._tools)) ELSE NoTools

\* _completion_async, lines 243-249: every tool goes to the function parser
CompletionAsyncTools(s) ==
    IF HasAttr(s, "_tools")
    THEN ToolList([k \in 1..Len(s._tools) |-> ToolParserParse(s._tools[k])])
    ELSE NoTools

\* the keyword arguments of completion(...) / acompletion(...)
Request(endpoint, prompt, stream, messages, response_format, tools) ==
    [model |-> endpoint.model, base_url |-> endpoint.base_url, prompt |-> prompt, stream |-> stream,
     messages |-> messages, response_format |-> response_format, tools |-> tools]

NoRequest ==
    [model |-> NoneText, base_url |-> NoneText, prompt |-> NoPrompt, stream |-> FALSE,
     messages |-> NoMessages, response_format |-> NoFormat, tools |-> NoTools]

\* mutant of AfterTransportRaise: one retry before giving up
AfterTransportRaiseRetry(e, dispatches) ==
    IF dispatches < 2
    THEN [pc |-> "dispatched", error |-> None, dispatches |-> dispatches + 1]
    ELSE [pc |-> "raised", error |-> e, dispatches |-> dispatches]

\* the transport call raises e after the given number of invocations: no
\* try/except and no loop surrounds completion(...) / acompletion(...), so
\* the call ends there with e itself
AfterTransportRaise(e, dispatches) ==
    [pc |-> "raised", error |-> e, dispatches |-> dispatches]

(***************************************************************************)
(* ResponseProcessorMixin                                                  *)
(***************************************************************************)

\* mutant of RoundDecimal8: ties round away from zero (ROUND_HALF_UP)
RoundDecimal8HalfUp(c) == (c + 5) \div 10

\* round(Decimal(c), 8): Decimal.__round__ quantizes under the default
\* context, whose rounding is ROUND_HALF_EVEN.  c counts 10^-9, the result 10^-8.
RoundDecimal8(c) ==
    LET q == c \div 10
        r == c % 10
    IN  IF r < 5 THEN q
        ELSE IF r > 5 THEN q + 1
        ELSE IF q % 2 = 0 THEN q ELSE q + 1

\* mutant of ResponseUsage: the total is recomputed from its parts
ResponseUsageRecomputed(response) ==
    [completion_tokens |-> response.completion_tokens,
     prompt_tokens |-> response.prompt_tokens,
     total_tokens |-> response.completion_tokens + response.prompt_tokens,
     cost |-> RoundDecimal8(response.response_cost)]

\* ModelUsage(...) of _process_response, lines 72-77: Decimal(None) raises TypeError
ResponseUsage(response) ==
    [completion_tokens |-> response.completion_tokens,
     prompt_tokens |-> response.prompt_tokens,
     total_tokens |-> response.total_tokens,
     cost |-> RoundDecimal8(response.response_cost)]

\* Model(provider=self.provider, name=self.model)
ModelTag(s) == [provider |-> s.provider, name |-> s.model]

\* _process_response
ProcessResponse(s, prompt, response) ==
    IF ~HasAttr(s, "provider") \/ ~HasAttr(s, "model") THEN Raise("AttributeError")
    ELSE IF response.response_cost = NoneCost THEN Raise("TypeError")
    ELSE Ok([prompt |-> PromptStr(prompt),
             response |-> response.content,
             model |-> ModelTag(s),
             usage |-> ResponseUsage(response)])

\* ModelUsage(...) of _process_stream_tail, lines 94-103
TailUsage(chunk) ==
    [completion_tokens |-> chunk.completion_tokens,
     prompt_tokens |-> chunk.prompt_tokens,
     total_tokens |-> chunk.total_tokens,
     cost |-> IF chunk.response_cost # NoneCost THEN RoundDecimal8(chunk.response_cost) ELSE NoneCost]

\* _process_stream_head
ProcessStreamHead(s) == [stage |-> "Head", model |-> ModelTag(s)]

\* _process_stream_chunk
ProcessStreamChunk(chunk) == [stage |-> "Chunk", delta |-> chunk.delta]

\* mutant of ProcessStreamTail: the prompt is not echoed
ProcessStreamTailNoPrompt(s, chunk, prompt, response) ==
    [stage |-> "Tail",
     prompt |-> NoneText,
     response |-> response,
     model |-> ModelTag(s),
     usage |-> TailUsage(chunk)]

\* _process_stream_tail
ProcessStreamTail(s, chunk, prompt, response) ==
    [stage |-> "Tail",
     prompt |-> PromptStr(prompt),
     response |-> response,
     model |-> ModelTag(s),
     usage |-> TailUsage(chunk)]

(***************************************************************************)
(* Idle values of the four groups of variables                             *)
(***************************************************************************)
\* what _ask_async has returned: nothing yet, or a list
NoList == [returned |-> FALSE, list |-> <<>>]
ReturnedList(l) == [returned |-> TRUE, list |-> l]

NoFailure == [error |-> None, at |-> None]

ChannelsInit ==
    /\ success_callback = <<>>
    /\ failure_callback = <<>>

FanIdle ==
    /\ _models = <<>>
    /\ fanEntry = None
    /\ fanPrompt = NoPrompt
    /\ fanPc = "idle"
    /\ fanResult = NoList
    /\ fanError = None
    /\ taskPc = <<>>
    /\ taskModel = <<>>
    /\ taskReq = <<>>
    /\ taskOut = <<>>
    /\ doneOrder = <<>>

CallIdle ==
    /\ callPc = "idle"
    /\ callMode = None
    /\ callPrompt = NoPrompt
    /\ callDocs = <<>>
    /\ callObs = <<>>
    /\ callReq = NoRequest
    /\ callDispatches = 0
    /\ callYielded = <<>>
    /\ callOut = NoOutcome
    /\ callFailure = NoFailure

ProcIdle ==
    /\ procPc = "idle"
    /\ procIn = NoRaw
    /\ procPrompt = NoPrompt
    /\ procOut = NoOutcome

StreamIdle ==
    /\ streamPc = "idle"
    /\ streamPrompt = NoPrompt
    /\ streamRaw = <<>>
    /\ streamSeen = <<>>
    /\ streamOut = <<>>
    /\ streamAcc = <<>>

\* Conf()["observability"]
ObservabilityLists == {<<>>, <<"logfire">>, <<"langfuse">>}

Channels == [success_callback |-> success_callback, failure_callback |-> failure_callback]

\* the channels after a call's _setup_observability has read the list obs
ChannelsAfterSetup(obs) ==
    /\ success_callback' = SetupObservability(obs, Channels).success_callback
    /\ failure_callback' = SetupObservability(obs, Channels).failure_callback

(***************************************************************************)
(* MultiModel: the fan-out                                                 *)
(***************************************************************************)

\* the attributes of a MultiModel: __init__ sets _models only; provider and
\* model exist only if the base class supplies them
OrchestratorSelves ==
    {[_rag |-> None]} \cup {[provider |-> e.provider, model |-> e.model, _rag |-> None] : e \in ModelEntries}

\* MultiModel.__init__: one Model per configured entry, in order, duplicates kept
BuildModels(entries) == [i \in 1..Len(entries) |-> [provider |-> entries[i].provider, model |-> entries[i].model]]

\* what the transport may answer to one task of the fan-out
FanResponses ==
    {[content |-> c, completion_tokens |-> 1, prompt_tokens |-> 1, total_tokens |-> 2, response_cost |-> k] :
        c \in {<<"x">>, <<"y">>}, k \in {NoneCost, 15}}

FanPrompts == {StrPrompt(<<"q">>), PromptObj(<<"q">>, None)}

Tasks == 1..Len(_models)

AllStarted == \A j \in DOMAIN taskPc : taskPc[j] # "created"

\* mutant of GatherMayReturn: gather(..., return_exceptions=True) resolves
\* once every child has finished, failed ones included
GatherMayReturnWithExceptions(pcs) == \A i \in DOMAIN pcs : pcs[i] \in {"done", "raised"}

\* asyncio.gather(*tasks) resolves with a list once every child has a result
GatherMayReturn(pcs) == \A i \in DOMAIN pcs : pcs[i] = "done"

\* mutant of GatherResults: the results in the order the children finished
GatherResultsCompletionOrder(outs) == [k \in DOMAIN outs |-> outs[doneOrder[k]].value]

\* asyncio.gather(*tasks): the children's results in the order of the arguments
GatherResults(outs) == [i \in DOMAIN outs |-> outs[i].value]

\* asyncio.gather(*tasks) without return_exceptions: the first child to raise
\* sets its exception on the awaited future
GatherMayRaise(pcs) == \E i \in DOMAIN pcs : pcs[i] = "raised"

FirstRaised(order, pcs) ==
    LET idx == CHOOSE k \in 1..Len(order) :
                  /\ pcs[order[k]] = "raised"
                  /\ \A j \in 1..(k - 1) : pcs[order[j]] # "raised"
    IN  order[idx]

InitFan ==
    /\ self \in OrchestratorSelves
    /\ ChannelsInit
    /\ \E entries \in SeqsUpTo(ModelEntries, MaxModels) : _models = BuildModels(entries)
    /\ fanEntry \in {"ask", "_ask_async"}
    /\ fanPrompt \in FanPrompts
    /\ fanPc = "idle"
    /\ fanResult = NoList
    /\ fanError = None
    /\ taskPc = <<>>
    /\ taskModel = <<>>
    /\ taskReq = <<>>
    /\ taskOut = <<>>
    /\ doneOrder = <<>>
    /\ CallIdle
    /\ ProcIdle
    /\ StreamIdle

\* _ask_async line 115 and the call of gather: one coroutine per model, in order
AskAsync ==
    /\ fanPc = "idle"
    /\ fanPc' = "gathering"
    /\ taskPc' = [i \in Tasks |-> "created"]
    /\ taskModel' = [i \in Tasks |-> _models[i]]
    /\ taskReq' = [i \in Tasks |-> NoRequest]
    /\ taskOut' = [i \in Tasks |-> NoOutcome]
    /\ UNCHANGED <<sharedVars, _models, fanEntry, fanPrompt, fanResult, fanError, doneOrder>>
    /\ UNCHANGED <<callVars, procVars, streamVars>>

\* _task up to its await of the transport: _execute_async, _completion_async
TaskStart(i) ==
    /\ fanPc = "gathering"
    /\ taskPc[i] = "created"
    /\ \A j \in 1..(i - 1) : taskPc[j] # "created"
    /\ \E obs \in ObservabilityLists : ChannelsAfterSetup(obs)
    /\ IF ~HasAttr(self, "provider") \/ ~HasAttr(self, "model")
       THEN /\ taskPc' = [taskPc EXCEPT ![i] = "raised"]
            /\ taskOut' = [taskOut EXCEPT ![i] = Raise("AttributeError")]
            /\ doneOrder' = Append(doneOrder, i)
            /\ UNCHANGED taskReq
       ELSE /\ taskPc' = [taskPc EXCEPT ![i] = "awaiting"]
            /\ taskReq' = [taskReq EXCEPT ![i] =
                   LET augmented == ExecuteAsyncRag(self, fanPrompt, <<>>)
                   IN  Request(CompletionAsyncEndpoint(self), ExecuteAsyncPass(augmented), FALSE,
                               CompletionAsyncMessages(ExecuteAsyncPass(augmented)),
                               CompletionAsyncResponseFormat(ExecuteAsyncResponseType(augmented)),
                               CompletionAsyncTools(self))]
            /\ UNCHANGED <<taskOut, doneOrder>>
    /\ UNCHANGED <<self, _models, fanEntry, fanPrompt, fanPc, fanResult, fanError, taskModel>>
    /\ UNCHANGED <<callVars, procVars, streamVars>>

\* the transport answers task i, and _task converts the answer (lines 84-87)
TaskTransportReturns(i) ==
    /\ AllStarted
    /\ taskPc[i] = "awaiting"
    /\ \E r \in FanResponses :
         LET out == ProcessResponse(self, fanPrompt, r)
         IN  /\ taskOut' = [taskOut EXCEPT ![i] = out]
             /\ taskPc' = [taskPc EXCEPT ![i] = IF out.ok THEN "done" ELSE "raised"]
    /\ doneOrder' = Append(doneOrder, i)
    /\ UNCHANGED <<sharedVars, _models, fanEntry, fanPrompt, fanPc, fanResult, fanError, taskModel, taskReq>>
    /\ UNCHANGED <<callVars, procVars, streamVars>>

\* the transport raises in task i (line 83): nothing catches it
TaskTransportRaises(i) ==
    /\ AllStarted
    /\ taskPc[i] = "awaiting"
    /\ \E e \in TransportErrors : taskOut' = [taskOut EXCEPT ![i] = Raise(AfterTransportRaise(e, 1).error)]
    /\ taskPc' = [taskPc EXCEPT ![i] = "raised"]
    /\ doneOrder' = Append(doneOrder, i)
    /\ UNCHANGED <<sharedVars, _models, fanEntry, fanPrompt, fanPc, fanResult, fanError, taskModel, taskReq>>
    /\ UNCHANGED <<callVars, procVars, streamVars>>

\* line 116: the await of gather resumes with the list
GatherReturns ==
    /\ fanPc = "gathering"
    /\ AllStarted
    /\ GatherMayReturn(taskPc)
    /\ fanPc' = "returned"
    /\ fanResult' = ReturnedList(GatherResults(taskOut))
    /\ UNCHANGED <<sharedVars, _models, fanEntry, fanPrompt, fanError, taskPc, taskModel, taskReq, taskOut, doneOrder>>
    /\ UNCHANGED <<callVars, procVars, streamVars>>

\* mutant of PendingAfterRaise: ask leaves the pending children as they are
PendingAfterRaiseNoCancel(pcs, entry) == pcs

\* the children once the await of gather has raised: under ask (line 138)
\* asyncio.run cancels those still pending before it re-raises; awaited
\* directly, _ask_async leaves them running
PendingAfterRaise(pcs, entry) ==
    IF entry = "ask"
    THEN [i \in DOMAIN pcs |-> IF pcs[i] = "awaiting" THEN "cancelled" ELSE pcs[i]]
    ELSE pcs

\* line 116: the await of gather resumes with the first child's exception.
\* Under ask (line 138) asyncio.run then cancels the children still pending;
\* awaited directly, _ask_async leaves them running.
GatherRaises ==
    /\ fanPc = "gathering"
    /\ AllStarted
    /\ GatherMayRaise(taskPc)
    /\ fanPc' = "raised"
    /\ fanError' = taskOut[FirstRaised(doneOrder, taskPc)].error
    /\ taskPc' = PendingAfterRaise(taskPc, fanEntry)
    /\ UNCHANGED <<sharedVars, _models, fanEntry, fanPrompt, fanResult, taskModel, taskReq, taskOut, doneOrder>>
    /\ UNCHANGED <<callVars, procVars, streamVars>>

NextFan ==
    \/ AskAsync
    \/ \E i \in DOMAIN taskPc : TaskStart(i)
    \/ \E i \in DOMAIN taskPc : TaskTransportReturns(i)
    \/ \E i \in DOMAIN taskPc : TaskTransportRaises(i)
    \/ GatherReturns
    \/ GatherRaises

Init == InitFan
Next == NextFan
Spec == Init /\ [][Next]_vars

(***************************************************************************)
(* Properties of the fan-out (checked under Spec)                          *)
(***************************************************************************)

RaisedTasks == {i \in DOMAIN taskPc : taskPc[i] = "raised"}

\* C1: a fan-out that returns, returns exactly one response per configured
\* entry, and the i-th response is the result of the task created for the
\* i-th entry, whatever the order in which the tasks finished.
C1_ResultsInConfigurationOrder ==
    fanPc = "returned" =>
        /\ fanResult.returned
        /\ Len(fanResult.list) = Len(_models)
        /\ \A i \in 1..Len(_models) :
              /\ taskModel[i] = _models[i]
              /\ taskOut[i].ok
              /\ fanResult.list[i] = taskOut[i].value

\* C1 witness: two tasks finished in the reverse of configuration order with
\* different results, and the fan-out returned.
C1_Witness ==
    /\ fanPc = "returned"
    /\ Len(_models) = 2
    /\ doneOrder = <<2, 1>>
    /\ fanResult.list[1] # fanResult.list[2]

\* C2: once any task has raised, the fan-out never returns a list: when it
\* completes it raises an error one of its tasks raised, and what the
\* sibling tasks produced is not handed out.
C2_NoPartialList ==
    /\ fanResult.returned => RaisedTasks = {}
    /\ (fanPc \in {"returned", "raised"} /\ RaisedTasks # {}) =>
          /\ fanPc = "raised"
          /\ ~fanResult.returned
          /\ fanError \in {taskOut[i].error : i \in RaisedTasks}
    /\ fanPc = "raised" => RaisedTasks # {}

\* C2 witness: of at least two tasks one raised after a sibling had completed
\* with a result, and the fan-out raised.
C2_Witness ==
    /\ fanPc = "raised"
    /\ Len(_models) >= 2
    /\ \E i, j \in DOMAIN taskPc :
          /\ taskPc[i] = "raised"
          /\ taskPc[j] = "done"
          /\ doneOrder[1] = j
    /\ ~fanResult.returned

\* the routing identifier and the tag of a configured entry
RoutingIdOf(m) == m.provider \o Slash \o m.model
IdentityOf(m) == [provider |-> m.provider, name |-> m.model]

\* C4 (as claimed): the task of the i-th entry dispatches to the i-th
\* entry's provider/name and its response is tagged with that identity.
C4_TaskUsesOwnIdentity ==
    /\ \A i \in DOMAIN taskPc :
          taskPc[i] \in {"awaiting", "done"} => taskReq[i].model = RoutingIdOf(_models[i])
    /\ fanPc = "returned" =>
          \A i \in 1..Len(_models) : fanResult.list[i].model = IdentityOf(_models[i])

FanCompleted == fanPc \in {"returned", "raised"}
InFlight == {i \in DOMAIN taskPc : taskPc[i] \in {"created", "awaiting"}}

\* C11 (as claimed): every task is launched when the fan-out starts, and
\* when the fan-out returns or raises none of its tasks is still running.
C11_CompletesAfterAllTasks ==
    /\ fanPc # "idle" => DOMAIN taskPc = 1..Len(_models)
    /\ FanCompleted => InFlight = {}

\* C11 (amended): every task is launched when the fan-out starts; a fan-out
\* that returns a list does so after every task has finished with a result;
\* a fan-out that raises does so on the first failure, after every task has
\* started, and only under ask are the siblings still in flight cancelled
\* before the error reaches the caller.
C11_ReturnsAfterAllRaisesOnFirst ==
    /\ fanPc # "idle" => DOMAIN taskPc = 1..Len(_models)
    /\ FanCompleted => \A i \in DOMAIN taskPc : taskPc[i] # "created"
    /\ fanPc = "returned" => \A i \in DOMAIN taskPc : taskPc[i] = "done"
    /\ (fanPc = "raised" /\ fanEntry = "ask") => InFlight = {}
    /\ (fanPc = "raised" /\ fanEntry = "_ask_async") =>
          \A i \in DOMAIN taskPc : taskPc[i] \in {"awaiting", "done", "raised"}

\* C11 witness: _ask_async has raised on one task's failure while a sibling
\* is still waiting for the transport.
C11_Witness ==
    /\ fanPc = "raised"
    /\ fanEntry = "_ask_async"
    /\ Len(_models) = 2
    /\ taskPc = <<"awaiting", "raised">>

(***************************************************************************)
(* One executor object and its three operations (SpecExec)                 *)
(***************************************************************************)
ExampleUrl == <<"h", "t", "t", "p", ":", "/", "/", "h">>
Versions == (1..MaxVersion) \cup {10 + MaxVersion}

\* what self._tools may hold
ToolObjects == {FunctionTool("f"), McpTool("m"), OtherTool("x")}
ToolLists == SeqsUpTo(ToolObjects, MaxTools)

\* the objects the operations run on: every endpoint configuration without
\* retrieval, one endpoint with a retrieval capability attached, and one
\* endpoint for each content of the tool list
ExecutorSelves ==
    {[provider |-> e.provider, model |-> e.model, _rag |-> None] : e \in ModelEntries}
    \cup {[provider |-> e.provider, model |-> e.model, _rag |-> None, url |-> NoneText, version |-> 1] :
            e \in ModelEntries}
    \cup {[provider |-> e.provider, model |-> e.model, _rag |-> None, url |-> ExampleUrl, version |-> v] :
            e \in ModelEntries, v \in Versions}
    \cup {[provider |-> <<"o">>, model |-> <<"g">>, _rag |-> "rag"]}
    \cup {[provider |-> <<"o">>, model |-> <<"g">>, _rag |-> None, _tools |-> ts] : ts \in ToolLists}

\* what self._rag.query(prompt)["documents"] may be: groups of passages
Passages == {<<"a">>, <<"b">>}
DocumentGroups == SeqsUpTo(Passages, MaxPassages)
DocumentLists == SeqsUpTo(DocumentGroups, MaxGroups)

\* the retrieval capability is queried only when one is attached
QueryResults(s) == IF s._rag # None THEN DocumentLists ELSE {<<>>}

ExecObservabilityLists == {<<>>, <<"logfire">>}

\* what the transport may answer to one call
ExecResponses ==
    {[content |-> <<"x">>, completion_tokens |-> 1, prompt_tokens |-> 1, total_tokens |-> 2, response_cost |-> k] :
        k \in {NoneCost, 15}}

\* what the transport may stream: one kind of chunk
ExecChunks == {[delta |-> <<"x">>]}

InitExec ==
    /\ self \in ExecutorSelves
    /\ ChannelsInit
    /\ FanIdle
    /\ CallIdle
    /\ ProcIdle
    /\ StreamIdle

\* _execute with _completion, up to the transport call at line 157
Execute(prompt, obs, documents) ==
    /\ callPc = "idle"
    /\ ChannelsAfterSetup(obs)
    /\ callPc' = "dispatched"
    /\ callMode' = "blocking"
    /\ callPrompt' = prompt
    /\ callDocs' = documents
    /\ callObs' = obs
    /\ callReq' = LET augmented == ExecuteRag(self, prompt, documents)
                   IN  Request(CompletionEndpoint(self), ExecutePass(augmented), FALSE,
                               CompletionMessages(ExecutePass(augmented)),
                               CompletionResponseFormat(ExecutePass(augmented)),
                               GetTools(self))
    /\ callDispatches' = callDispatches + 1
    /\ UNCHANGED <<self, callYielded, callOut, callFailure>>
    /\ UNCHANGED <<fanVars, procVars, streamVars>>

\* _execute_async with _completion_async, up to the transport call at line 257
ExecuteAsync(prompt, obs, documents) ==
    /\ callPc = "idle"
    /\ ChannelsAfterSetup(obs)
    /\ callPc' = "dispatched"
    /\ callMode' = "async"
    /\ callPrompt' = prompt
    /\ callDocs' = documents
    /\ callObs' = obs
    /\ callReq' = LET augmented == ExecuteAsyncRag(self, prompt, documents)
                   IN  Request(CompletionAsyncEndpoint(self), ExecuteAsyncPass(augmented), FALSE,
                               CompletionAsyncMessages(ExecuteAsyncPass(augmented)),
                               CompletionAsyncResponseFormat(ExecuteAsyncResponseType(augmented)),
                               CompletionAsyncTools(self))
    /\ callDispatches' = callDispatches + 1
    /\ UNCHANGED <<self, callYielded, callOut, callFailure>>
    /\ UNCHANGED <<fanVars, procVars, streamVars>>

\* _execute_stream with _completion_stream, up to the transport call at line 199
ExecuteStream(prompt, obs, documents) ==
    /\ callPc = "idle"
    /\ ChannelsAfterSetup(obs)
    /\ callPc' = "dispatched"
    /\ callMode' = "stream"
    /\ callPrompt' = prompt
    /\ callDocs' = documents
    /\ callObs' = obs
    /\ callReq' = LET augmented == ExecuteStreamRag(self, prompt, documents)
                   IN  Request(CompletionStreamEndpoint(self), ExecuteStreamPass(augmented), TRUE,
                               CompletionStreamMessages(ExecuteStreamPass(augmented)),
                               CompletionStreamResponseFormat(ExecuteStreamResponseType(augmented)),
                               GetTools(self))
    /\ callDispatches' = callDispatches + 1
    /\ UNCHANGED <<self, callYielded, callOut, callFailure>>
    /\ UNCHANGED <<fanVars, procVars, streamVars>>

\* the transport call returns: the blocking and non-blocking operations
\* return the raw response (lines 168, 257)
TransportReturns ==
    /\ callPc = "dispatched"
    /\ callMode \in {"blocking", "async"}
    /\ \E r \in ExecResponses : callOut' = Ok(r)
    /\ callPc' = "returned"
    /\ UNCHANGED <<sharedVars, callMode, callPrompt, callDocs, callObs, callReq, callDispatches, callYielded,
                   callFailure>>
    /\ UNCHANGED <<fanVars, procVars, streamVars>>

\* the transport call raises (lines 157, 199, 257)
TransportRaises ==
    /\ callPc = "dispatched"
    /\ \E e \in TransportErrors :
         LET after == AfterTransportRaise(e, callDispatches)
         IN  /\ callPc' = after.pc
             /\ callOut' = IF after.pc = "raised" THEN Raise(after.error) ELSE callOut
             /\ callDispatches' = after.dispatches
             /\ callFailure' = [error |-> e, at |-> "dispatch"]
    /\ UNCHANGED <<sharedVars, callMode, callPrompt, callDocs, callObs, callReq, callYielded>>
    /\ UNCHANGED <<fanVars, procVars, streamVars>>

\* the streaming transport call returns its chunk iterator (line 199)
TransportStreamOpens ==
    /\ callPc = "dispatched"
    /\ callMode = "stream"
    /\ callPc' = "streaming"
    /\ UNCHANGED <<sharedVars, callMode, callPrompt, callDocs, callObs, callReq, callDispatches, callYielded,
                   callOut, callFailure>>
    /\ UNCHANGED <<fanVars, procVars, streamVars>>

\* lines 210-211 and 44-48: each transport chunk is yielded as it is
StreamYields ==
    /\ callPc = "streaming"
    /\ Len(callYielded) < MaxChunks
    /\ \E c \in ExecChunks : callYielded' = Append(callYielded, c)
    /\ UNCHANGED <<sharedVars, callPc, callMode, callPrompt, callDocs, callObs, callReq, callDispatches,
                   callOut, callFailure>>
    /\ UNCHANGED <<fanVars, procVars, streamVars>>

\* the transport's iterator is exhausted: the generator ends
StreamEnds ==
    /\ callPc = "streaming"
    /\ callPc' = "returned"
    /\ callOut' = Ok(None)
    /\ UNCHANGED <<sharedVars, callMode, callPrompt, callDocs, callObs, callReq, callDispatches, callYielded,
                   callFailure>>
    /\ UNCHANGED <<fanVars, procVars, streamVars>>

\* the transport's iterator raises between chunks (line 210)
StreamRaises ==
    /\ callPc = "streaming"
    /\ \E e \in TransportErrors :
         /\ callOut' = Raise(e)
         /\ callFailure' = [error |-> e, at |-> "stream"]
    /\ callPc' = "raised"
    /\ UNCHANGED <<sharedVars, callMode, callPrompt, callDocs, callObs, callReq, callDispatches, callYielded>>
    /\ UNCHANGED <<fanVars, procVars, streamVars>>

NextExec ==
    \/ /\ callPc = "idle"
       /\ \E p \in Prompts, obs \in ExecObservabilityLists, d \in QueryResults(self) : Execute(p, obs, d)
    \/ /\ callPc = "idle"
       /\ \E p \in Prompts, obs \in ExecObservabilityLists, d \in QueryResults(self) : ExecuteAsync(p, obs, d)
    \/ /\ callPc = "idle"
       /\ \E p \in Prompts, obs \in ExecObservabilityLists, d \in QueryResults(self) : ExecuteStream(p, obs, d)
    \/ TransportReturns
    \/ TransportRaises
    \/ TransportStreamOpens
    \/ StreamYields
    \/ StreamEnds
    \/ StreamRaises

SpecExec == InitExec /\ [][NextExec]_vars

(***************************************************************************)
(* Properties of the three operations (checked under SpecExec)             *)
(***************************************************************************)

Dispatched == callPc # "idle"

\* the passages of all groups, first group first, written without Flatten
RECURSIVE PassagesInOrder(_, _, _)
PassagesInOrder(documents, g, k) ==
    IF g > Len(documents) THEN <<>>
    ELSE IF k > Len(documents[g]) THEN PassagesInOrder(documents, g + 1, 1)
    ELSE <<documents[g][k]>> \o PassagesInOrder(documents, g, k + 1)

\* passages separated by single newlines, written without Join
RECURSIVE NewlineSeparated(_, _)
NewlineSeparated(passages, n) ==
    IF n = 0 THEN <<>>
    ELSE IF n = 1 THEN passages[1]
    ELSE NewlineSeparated(passages, n - 1) \o <<"\n">> \o passages[n]

ExpectedContext(documents) ==
    LET passages == PassagesInOrder(documents, 1, 1)
    IN  NewlineSeparated(passages, Len(passages))

ExampleDocuments == << << <<"a">>, <<"b">> >>, << <<"a">> >> >>
ExampleContext == <<"a", "\n", "b", "\n", "a">>

\* C6: with a retrieval capability attached, the prompt text handed on is
\* the original when retrieval returned no group, and otherwise the original
\* followed by the template prefix and all passages, group by group, joined
\* by single newlines; the same in the three operations.
C6_RagAugmentation ==
    (Dispatched /\ self._rag # None /\ callPrompt.kind # "list") =>
        /\ Len(callDocs) = 0 => callReq.prompt.text = callPrompt.text
        /\ Len(callDocs) > 0 =>
              callReq.prompt.text = callPrompt.text \o RagTemplate \o ExpectedContext(callDocs)
        /\ callDocs = ExampleDocuments =>
              callReq.prompt.text = callPrompt.text \o RagTemplate \o ExampleContext

\* C6 witness: a streaming call on a Prompt object for which retrieval
\* returned [["a","b"],["a"]].
C6_Witness ==
    /\ callPc = "dispatched"
    /\ callMode = "stream"
    /\ self._rag # None
    /\ callPrompt = PromptObj(<<"q">>, None)
    /\ callDocs = ExampleDocuments
    /\ callReq.prompt.text = <<"q", " ", "R", ":", "a", "\n", "b", "\n", "a">>

\* the number a decimal numeral denotes
RECURSIVE DecimalValue(_)
DecimalValue(t) ==
    IF Len(t) = 0 THEN 0
    ELSE 10 * DecimalValue(SubSeq(t, 1, Len(t) - 1))
         + (CHOOSE d \in 0..9 : Digits[d + 1] = t[Len(t)])

IsNumeral(t) ==
    /\ Len(t) > 0
    /\ \A i \in 1..Len(t) : \E d \in 0..9 : Digits[d + 1] = t[i]
    /\ (Len(t) > 1 => t[1] # "0")

SelfHosted == HasAttr(self, "url") /\ self.url # NoneText

\* C7: in each operation, without a self-hosted URL the transport gets
\* "{provider}/{model}" and no base URL; with one it gets
\* "hosted_vllm/{provider}/{model}" and "{url}/v{version}".
C7_EndpointResolution ==
    Dispatched =>
        IF SelfHosted
        THEN /\ callReq.model = HostedPrefix \o self.provider \o <<"/">> \o self.model
             /\ Len(callReq.base_url) > Len(self.url) + 2
             /\ SubSeq(callReq.base_url, 1, Len(self.url) + 2) = self.url \o <<"/", "v">>
             /\ LET numeral == SubSeq(callReq.base_url, Len(self.url) + 3, Len(callReq.base_url))
                IN  IsNumeral(numeral) /\ DecimalValue(numeral) = self.version
        ELSE /\ callReq.model = self.provider \o <<"/">> \o self.model
             /\ callReq.base_url = NoneText

\* C7 witness: a streaming call with url "http://h" and version 2.
C7_Witness ==
    /\ callPc = "dispatched"
    /\ callMode = "stream"
    /\ HasAttr(self, "url")
    /\ self.url = ExampleUrl
    /\ self.version = 2
    /\ self.provider = <<"o">>
    /\ callReq.model = <<"h", "o", "s", "t", "e", "d", "_", "v", "l", "l", "m", "/", "o", "/", "g">>
    /\ callReq.base_url = <<"h", "t", "t", "p", ":", "/", "/", "h", "/", "v", "2">>

\* C9: a call invokes the transport at most once; when the transport raises,
\* the call ends raising that very error; a streaming call that fails at the
\* transport call has yielded nothing.
C9_NoRetryNoTranslation ==
    /\ callDispatches <= 1
    /\ callFailure.error # None =>
          /\ callPc = "raised"
          /\ callOut = Raise(callFailure.error)
    /\ callPc = "raised" => callOut.error = callFailure.error
    /\ (callMode = "stream" /\ callFailure.at = "dispatch") => callYielded = <<>>

\* C9 witness: a streaming call whose transport call raised.
C9_Witness ==
    /\ callMode = "stream"
    /\ callPc = "raised"
    /\ callFailure = [error |-> "RateLimitError", at |-> "dispatch"]
    /\ callOut = Raise("RateLimitError")
    /\ callDispatches = 1

\* C10 (as claimed): when a call made with a non-empty observability list
\* has dispatched, both notification channels of the transport hold that list.
C10_ChannelsSetAtDispatch ==
    (callPc = "dispatched" /\ Len(callObs) > 0) =>
        /\ success_callback = callObs
        /\ failure_callback = callObs

\* the prompt text after the retrieval step, written without the executor's operators
ExpectedText ==
    IF self._rag # None /\ Len(callDocs) > 0
    THEN callPrompt.text \o RagTemplate \o ExpectedContext(callDocs)
    ELSE callPrompt.text

OneMessage(m) == m.shape = "list" /\ Len(m.items) = 1 /\ m.items[1].shape = "dict"

\* C12 (as claimed): in each of the three modes a plain-text prompt reaches
\* the transport as exactly one message of role "user" holding the (possibly
\* augmented) prompt text, a Prompt object as exactly one role/content
\* message, and a pre-built message list exactly as it was given.
C12_MessageNormalization ==
    Dispatched =>
        /\ callPrompt.kind = "str" =>
              /\ OneMessage(callReq.messages)
              /\ callReq.messages.items[1].role = "user"
              /\ callReq.messages.items[1].content = ExpectedText
        /\ callPrompt.kind = "Prompt" =>
              /\ OneMessage(callReq.messages)
              /\ callReq.messages.items[1].content = ExpectedText
        /\ callPrompt.kind = "list" => callReq.messages = MessageList(callPrompt.items)

\* the type the caller asked for: that of a Prompt object, if it names one
RequestedType == IF callPrompt.kind = "Prompt" THEN callPrompt.response_type ELSE None

\* C13 (as claimed): in each of the three modes the response schema given to
\* the transport is the requested type wrapped under a single field when a
\* type was requested and free text under a single field otherwise; it is
\* never absent and never the bare type.
C13_SchemaAlwaysWrapped ==
    Dispatched =>
        /\ callReq.response_format.wrapped
        /\ callReq.response_format.type = (IF RequestedType = None THEN "str" ELSE RequestedType)

\* the descriptors of the first n tools: one from the function parser for a
\* callable, one from the MCP parser for an MCP tool, none for another shape
RECURSIVE ExpectedDescriptors(_, _)
ExpectedDescriptors(tools, n) ==
    IF n = 0 THEN <<>>
    ELSE LET before == ExpectedDescriptors(tools, n - 1)
             tool == tools[n]
         IN  CASE tool.isa = "function" ->
                    Append(before, [parser |-> "ToolParser", isa |-> "function", name |-> tool.name])
               [] tool.isa = "MCPTool" ->
                    Append(before, [parser |-> "McpToolParser", isa |-> "MCPTool", name |-> tool.name])
               [] OTHER -> before

\* C14 (as claimed): in each of the three modes, with no tool list or an empty
\* one the transport gets no tool descriptor; otherwise it gets, in input
\* order, the function parser's descriptor of every callable and the MCP
\* parser's descriptor of every MCP tool, tools of another shape being skipped.
C14_ToolResolution ==
    Dispatched =>
        IF ~HasAttr(self, "_tools") \/ Len(self._tools) = 0
        THEN callReq.tools.list = <<>>
        ELSE /\ callReq.tools.present
             /\ callReq.tools.list = ExpectedDescriptors(self._tools, Len(self._tools))

SomeGroupNonEmpty == \E g \in 1..Len(callDocs) : Len(callDocs[g]) > 0

\* C15 (as claimed): the prompt text is handed on with the template prefix
\* and context appended exactly when a retrieval capability is attached and
\* retrieval returned at least one non-empty group; when every returned
\* group is empty, or no capability is attached, it is handed on as given.
C15_RagPrecondition ==
    (Dispatched /\ callPrompt.kind # "list") =>
        IF self._rag # None /\ SomeGroupNonEmpty
        THEN callReq.prompt.text = callPrompt.text \o RagTemplate \o ExpectedContext(callDocs)
        ELSE callReq.prompt.text = callPrompt.text

(***************************************************************************)
(* The response processor's conversions on their own (SpecProc)            *)
(***************************************************************************)
ExampleCost == 123456780 + 5

\* a reported cost: None, or a number of 10^-9 units
ReportedCosts == {NoneCost} \cup (0..MaxCostUnits) \cup {ExampleCost}

\* what the transport may report, consistent totals or not
RawResponses ==
    [content : {<<"x">>},
     completion_tokens : 0..MaxTokens,
     prompt_tokens : 0..MaxTokens,
     total_tokens : 0..MaxTokens,
     response_cost : ReportedCosts]

ProcessorSelves == {[provider |-> e.provider, model |-> e.model, _rag |-> None] : e \in ModelEntries}

InitProc ==
    /\ self \in ProcessorSelves
    /\ ChannelsInit
    /\ FanIdle
    /\ CallIdle
    /\ procPc = "idle"
    /\ procIn \in RawResponses
    /\ procPrompt = StrPrompt(<<"q">>)
    /\ procOut = NoOutcome
    /\ StreamIdle

\* _process_response(prompt, response)
ProcessResponseCall ==
    /\ procPc = "idle"
    /\ procPc' = "response"
    /\ procOut' = ProcessResponse(self, procPrompt, procIn)
    /\ UNCHANGED <<sharedVars, procIn, procPrompt>>
    /\ UNCHANGED <<fanVars, callVars, streamVars>>

\* _process_stream_tail(chunk, prompt, response)
ProcessStreamTailCall ==
    /\ procPc = "idle"
    /\ procPc' = "tail"
    /\ procOut' = Ok(ProcessStreamTail(self, procIn, procPrompt, procIn.content))
    /\ UNCHANGED <<sharedVars, procIn, procPrompt>>
    /\ UNCHANGED <<fanVars, callVars, streamVars>>

NextProc ==
    \/ ProcessResponseCall
    \/ ProcessStreamTailCall

SpecProc == InitProc /\ [][NextProc]_vars

Converted == procPc \in {"response", "tail"} /\ procOut.ok

\* the distance between a reported cost and a processed cost, in 10^-9 units
CostDistance(processed, reported) ==
    IF 10 * processed >= reported THEN 10 * processed - reported ELSE reported - 10 * processed

\* C5 (as claimed): the processed cost is the reported cost rounded to 8
\* fractional digits with ties rounded up: 0.123456785 gives 0.12345679.
C5_RoundsHalfUp ==
    (Converted /\ procIn.response_cost # NoneCost) =>
        /\ CostDistance(procOut.value.usage.cost, procIn.response_cost) <= 5
        /\ CostDistance(procOut.value.usage.cost, procIn.response_cost) = 5 =>
              10 * procOut.value.usage.cost > procIn.response_cost
        /\ procIn.response_cost = ExampleCost => procOut.value.usage.cost = 12345679

\* C5 (amended): the processed cost is the reported cost rounded to 8
\* fractional digits with ties rounded to the even digit: 0.123456785 gives
\* 0.12345678.
C5_RoundsHalfEven ==
    (Converted /\ procIn.response_cost # NoneCost) =>
        /\ CostDistance(procOut.value.usage.cost, procIn.response_cost) <= 5
        /\ CostDistance(procOut.value.usage.cost, procIn.response_cost) = 5 =>
              procOut.value.usage.cost % 2 = 0
        /\ procIn.response_cost = ExampleCost => procOut.value.usage.cost = 12345678

\* C5 witness: _process_response has converted a response reporting 0.123456785.
C5_Witness ==
    /\ procPc = "response"
    /\ procOut.ok
    /\ procIn.response_cost = ExampleCost
    /\ procOut.value.usage.cost = 12345678

\* C8: the three token counts of a normalised response or tail are the
\* transport's, the total included even when it is not the sum of the parts.
C8_UsagePassThrough ==
    Converted =>
        /\ procOut.value.usage.completion_tokens = procIn.completion_tokens
        /\ procOut.value.usage.prompt_tokens = procIn.prompt_tokens
        /\ procOut.value.usage.total_tokens = procIn.total_tokens

\* C8 witness: a response whose reported total is not the sum of its parts
\* has been converted with that total.
C8_Witness ==
    /\ procPc = "response"
    /\ procOut.ok
    /\ procIn.completion_tokens = 1
    /\ procIn.prompt_tokens = 1
    /\ procIn.total_tokens = 0
    /\ procOut.value.usage.total_tokens = 0

\* C16 (as claimed): converting a response or a terminal chunk completes
\* whatever the reported cost: a null cost gives a null processed cost, a
\* non-null cost gives that cost rounded to 8 fractional digits.
C16_NullCostConverts ==
    (procPc \in {"response", "tail"} /\ HasAttr(self, "provider") /\ HasAttr(self, "model")) =>
        /\ procOut.ok
        /\ procIn.response_cost = NoneCost => procOut.value.usage.cost = NoneCost
        /\ procIn.response_cost # NoneCost =>
              CostDistance(procOut.value.usage.cost, procIn.response_cost) <= 5

(***************************************************************************)
(* The streaming call as its consumer sees it (SpecStream).  The loop that *)
(* drives _execute_stream and calls the three _process_stream_* methods is *)
(* written from the specification: a Head before any content, a Chunk per  *)
(* content delta, a Tail on the terminal transport chunk.                  *)
(***************************************************************************)
ContentChunk(d) == [terminal |-> FALSE, delta |-> d, completion_tokens |-> 0, prompt_tokens |-> 0,
                    total_tokens |-> 0, response_cost |-> NoneCost]
TerminalChunk(k) == [terminal |-> TRUE, delta |-> <<>>, completion_tokens |-> 1, prompt_tokens |-> 1,
                     total_tokens |-> 2, response_cost |-> k]

Deltas == {<<"x">>, <<"y">>}

\* what the transport streams in a call it completes: content chunks, then
\* one terminal chunk with the aggregate usage
TransportStreams ==
    {Append(cs, TerminalChunk(k)) :
        cs \in SeqsUpTo({ContentChunk(d) : d \in Deltas}, MaxChunks), k \in {NoneCost, 15}}

InitStream ==
    /\ self \in ProcessorSelves
    /\ ChannelsInit
    /\ FanIdle
    /\ CallIdle
    /\ ProcIdle
    /\ streamPc = "idle"
    /\ streamPrompt \in {StrPrompt(<<"q">>), StrPrompt(<<>>)}
    /\ streamRaw \in TransportStreams
    /\ streamSeen = <<>>
    /\ streamOut = <<>>
    /\ streamAcc = <<>>

\* the call starts: the Head is emitted before any content is available
StreamBegin ==
    /\ streamPc = "idle"
    /\ streamPc' = "open"
    /\ streamOut' = Append(streamOut, ProcessStreamHead(self))
    /\ UNCHANGED <<sharedVars, streamPrompt, streamRaw, streamSeen, streamAcc>>
    /\ UNCHANGED <<fanVars, callVars, procVars>>

\* a content chunk arrives: one Chunk with its delta
StreamContent ==
    /\ streamPc = "open"
    /\ Len(streamRaw) > 0
    /\ ~Head(streamRaw).terminal
    /\ streamOut' = Append(streamOut, ProcessStreamChunk(Head(streamRaw)))
    /\ streamAcc' = streamAcc \o Head(streamRaw).delta
    /\ streamSeen' = Append(streamSeen, Head(streamRaw))
    /\ streamRaw' = Tail(streamRaw)
    /\ UNCHANGED <<sharedVars, streamPc, streamPrompt>>
    /\ UNCHANGED <<fanVars, callVars, procVars>>

\* the terminal chunk arrives: the Tail, and the call is complete
StreamTerminal ==
    /\ streamPc = "open"
    /\ Len(streamRaw) > 0
    /\ Head(streamRaw).terminal
    /\ streamOut' = Append(streamOut, ProcessStreamTail(self, Head(streamRaw), streamPrompt, streamAcc))
    /\ streamSeen' = Append(streamSeen, Head(streamRaw))
    /\ streamRaw' = Tail(streamRaw)
    /\ streamPc' = "done"
    /\ UNCHANGED <<sharedVars, streamPrompt, streamAcc>>
    /\ UNCHANGED <<fanVars, callVars, procVars>>

\* the transport raises instead of delivering the next chunk
StreamFails ==
    /\ streamPc = "open"
    /\ Len(streamRaw) > 0
    /\ streamPc' = "failed"
    /\ UNCHANGED <<sharedVars, streamPrompt, streamRaw, streamSeen, streamOut, streamAcc>>
    /\ UNCHANGED <<fanVars, callVars, procVars>>

NextStream ==
    \/ StreamBegin
    \/ StreamContent
    \/ StreamTerminal
    \/ StreamFails

SpecStream == InitStream /\ [][NextStream]_vars

Stages == [i \in 1..Len(streamOut) |-> streamOut[i].stage]

====
